---- MODULE Spec2Model ----
(***************************************************************************)
(* Model of context_chat_backend's ingestion pipeline                      *)
(* (chain/ingest/injest.py) and of the helpers it uses (utils.py).         *)
(*                                                                         *)
(* Python strings are sequences of one-character strings, so that prefix   *)
(* tests and integer parsing are computed, not assumed.  Python's None is  *)
(* the one-element sequence None, which no string equals.                  *)
(***************************************************************************)
EXTENDS Integers, Sequences, FiniteSets, TLC

None == <<"<None>">>

\* ---------------------------------------------------------------- bounds
\* number of embed_sources calls made one after the other
MaxCalls == 2
\* number of Sources in one request
MaxSources == 2
\* number of Chunks the splitter makes of one Document
MaxChunks == 2
\* number of Sources in a request of the gating/grouping specification
MaxGateSources == 2
\* number of Sources in a request of a concurrent call
MaxConcSources == 1

\* ---------------------------------------------------------------- values
U1 == <<"u", "1">>
U2 == <<"u", "2">>
FileA == <<"a">>
FileB == <<"f", "i", "l", "e", ":", " ", "b">>
FilePrefix == <<"f", "i", "l", "e", ":", " ">>
TextPlain == <<"t", "e", "x", "t", "/", "p", "l", "a", "i", "n">>
TextMd == <<"t", "e", "x", "t", "/", "m", "d">>
AppExe == <<"a", "p", "p", "/", "e", "x", "e">>
Text == <<"t">>
Empty == <<>>

SUPPORTED_MIMETYPES == {TextPlain, TextMd}

\* ---------------------------------------------------------------- utils.py
Digits == <<"0", "1", "2", "3", "4", "5", "6", "7", "8", "9">>

IsDigit(c) == \E d \in 1..10 : Digits[d] = c

DigitVal(c) == (CHOOSE d \in 1..10 : Digits[d] = c) - 1

RECURSIVE ParseNat(_)
ParseNat(s) ==
    IF s = <<>> THEN 0
    ELSE ParseNat(SubSeq(s, 1, Len(s) - 1)) * 10 + DigitVal(s[Len(s)])

IsNumeral(s) == s # <<>> /\ \A i \in 1..Len(s) : IsDigit(s[i])

RECURSIVE Strip(_)
Strip(s) ==
    IF s = <<>> THEN s
    ELSE IF s[1] = " " THEN Strip(Tail(s))
    ELSE IF s[Len(s)] = " " THEN Strip(SubSeq(s, 1, Len(s) - 1))
    ELSE s

\* int(value) of a str: surrounding blanks, an optional sign, decimal digits;
\* anything else raises ValueError
IntParses(s) ==
    LET t == Strip(s) IN
    /\ t # <<>>
    /\ IF t[1] \in {"+", "-"} THEN IsNumeral(Tail(t)) ELSE IsNumeral(t)

IntOf(s) ==
    LET t == Strip(s) IN
    IF t[1] = "-" THEN 0 - ParseNat(Tail(t))
    ELSE IF t[1] = "+" THEN ParseNat(Tail(t))
    ELSE ParseNat(t)

\* a default of 1 where the text does not parse
to_int_default_one(value) ==
    IF value = None THEN 0
    ELSE IF IntParses(value) THEN IntOf(value)
    ELSE 1

to_int(value) ==
    IF value = None THEN 0
    ELSE IF IntParses(value) THEN IntOf(value)
    ELSE 0

\* ---------------------------------------------------------------- embed_sources: gating
startswith(s, prefix) ==
    /\ Len(s) >= Len(prefix)
    /\ SubSeq(s, 1, Len(prefix)) = prefix

\* file.headers.get('type', default='') in SUPPORTED_MIMETYPES
_allowed_file(file) ==
    (IF file.type = None THEN <<>> ELSE file.type) \in SUPPORTED_MIMETYPES

\* the filename test without "is not None"
AdmittedNoNoneTest(source) ==
    \/ ~startswith(source.filename, FilePrefix)
    \/ _allowed_file(source)

Admitted(source) ==
    \/ (source.filename # None /\ ~startswith(source.filename, FilePrefix))
    \/ _allowed_file(source)

sources_filtered(sources) == SelectSeq(sources, Admitted)

\* ---------------------------------------------------------------- _sources_to_documents
\* Document(page_content=content, metadata={source, type, modified, ...})
Document(source) ==
    [source |-> source.filename, type |-> source.type,
     modified |-> source.modified, content |-> source.content]

\* decode_source(source) is not None and != ''
Decodes(source) == source.content # None /\ source.content # <<>>

\* the content test without the test for ''
GroupedKeepsEmpty(source) == source.userId # None /\ source.content # None

\* neither "continue" of the loop is taken
Grouped(source) == source.userId # None /\ Decodes(source)

\* the keys of a dict in insertion order, from the keys in the order they were set
RECURSIVE Keys(_)
Keys(ks) ==
    IF ks = <<>> THEN <<>>
    ELSE LET rest == Keys(SubSeq(ks, 1, Len(ks) - 1))
             k == ks[Len(ks)]
         IN IF \E i \in 1..Len(rest) : rest[i] = k THEN rest ELSE Append(rest, k)

Map(seq, f(_)) == [i \in 1..Len(seq) |-> f(seq[i])]

\* dict[user_id, list[Document]] as a sequence of <<user_id, documents>>
_sources_to_documents(sources) ==
    LET kept == SelectSeq(sources, Grouped)
        users == Keys(Map(kept, LAMBDA s : s.userId))
    IN [k \in 1..Len(users) |->
           <<users[k],
             Map(SelectSeq(kept, LAMBDA s : s.userId = users[k]), Document)>>]

\* ---------------------------------------------------------------- the vector store
\* A VectorRecord is [id, user, source, modified, write]: write is the serial
\* number of the add_documents call that created it.

\* vectordb.get_objects_from_metadata(user_id, 'source', sources): for each of
\* the sources that has a record, the {id, modified} of one record of it
get_objects_from_metadata(store, user_id, sources) ==
    LET found == {s \in sources : \E r \in store : r.user = user_id /\ r.source = s}
        recs(s) == {r \in store : r.user = user_id /\ r.source = s}
    IN {f \in [found -> store] : \A s \in found : f[s] \in recs(s)}

\* vectordb.delete_by_ids(user_id, ids)
delete_by_ids(store, user_id, ids) ==
    {r \in store : ~(r.user = user_id /\ r.id \in ids)}

\* user_client.add_documents(chunks), of which the first n are stored
add_documents(user_id, chunks, n, firstId, write) ==
    {[id |-> firstId + i - 1, user |-> user_id, source |-> chunks[i].source,
      modified |-> chunks[i].modified, write |-> write] : i \in 1..n}

\* ---------------------------------------------------------------- _filter_documents
Range(seq) == {seq[i] : i \in 1..Len(seq)}

\* input_sources: source -> modified of the last document with that source
input_sources(documents) ==
    LET keys == {d.source : d \in Range(documents)} \ {None}
        last(s) == CHOOSE i \in 1..Len(documents) :
                      /\ documents[i].source = s
                      /\ \A j \in (i + 1)..Len(documents) : documents[j].source # s
    IN [s \in keys |-> documents[last(s)].modified]

\* recently modified files are re-embedded
IsNewer(incoming, stored) == to_int(incoming) > to_int(stored)

\* to_delete: source -> id of the existing record that is superseded
to_delete(inputs, existing_objects) ==
    LET marked == {s \in DOMAIN existing_objects :
                      IsNewer(inputs[s], existing_objects[s].modified)}
    IN [s \in marked |-> existing_objects[s].id]

\* sources not already in the vectordb + the ones that were deleted
new_sources(inputs, existing_objects) ==
    ((DOMAIN inputs) \ (DOMAIN existing_objects))
        \cup DOMAIN to_delete(inputs, existing_objects)

Survives(doc, news) == doc.source \in news

_filter_documents(documents, existing_objects) ==
    LET news == new_sources(input_sources(documents), existing_objects)
    IN SelectSeq(documents, LAMBDA doc : Survives(doc, news))

\* ---------------------------------------------------------------- _bucket_by_type
\* dict[type, list[Document]] flattened in bucket order: the order in which
\* the splitters see the documents
_bucket_by_type(documents) ==
    LET types == Keys(Map(documents, LAMBDA d : d.type))
        bucket(k) == SelectSeq(documents, LAMBDA d : d.type = types[k])
        RECURSIVE flat(_)
        flat(k) == IF k = 0 THEN <<>> ELSE flat(k - 1) \o bucket(k)
    IN flat(Len(types))

\* ---------------------------------------------------------------- normalization
Whitespace == {" ", "\t", "\n", "\r", "\f"}

\* number of (\r)?\n units that start at s[i], and the characters they take
RECURSIVE NlUnits(_, _)
NlUnits(s, i) ==
    IF i <= Len(s) /\ s[i] = "\n" THEN 1 + NlUnits(s, i + 1)
    ELSE IF i + 1 <= Len(s) /\ s[i] = "\r" /\ s[i + 1] = "\n" THEN 1 + NlUnits(s, i + 2)
    ELSE 0

RECURSIVE NlChars(_, _)
NlChars(s, i) ==
    IF i <= Len(s) /\ s[i] = "\n" THEN 1 + NlChars(s, i + 1)
    ELSE IF i + 1 <= Len(s) /\ s[i] = "\r" /\ s[i + 1] = "\n" THEN 2 + NlChars(s, i + 2)
    ELSE 0

\* re.sub(r'((\r)?\n){3,}', '\n\n', s), from position i
RECURSIVE SubNewlines(_, _)
SubNewlines(s, i) ==
    IF i > Len(s) THEN <<>>
    ELSE IF NlUnits(s, i) >= 3 THEN <<"\n", "\n">> \o SubNewlines(s, i + NlChars(s, i))
    ELSE <<s[i]>> \o SubNewlines(s, i + 1)

RECURSIVE WsRun(_, _)
WsRun(s, i) ==
    IF i <= Len(s) /\ s[i] \in Whitespace THEN 1 + WsRun(s, i + 1) ELSE 0

\* re.sub(r'(\s){5,}', r'\g<1>', s), from position i: group 1 is the last
\* whitespace character of the run
RECURSIVE SubSpaces(_, _)
SubSpaces(s, i) ==
    IF i > Len(s) THEN <<>>
    ELSE IF WsRun(s, i) >= 5
         THEN <<s[i + WsRun(s, i) - 1]>> \o SubSpaces(s, i + WsRun(s, i))
    ELSE <<s[i]>> \o SubSpaces(s, i + 1)

Normalize(s) == SubSpaces(SubNewlines(s, 1), 1)

\* ---------------------------------------------------------------- requests
Source(u, f, t, m, c) ==
    [userId |-> u, filename |-> f, type |-> t, modified |-> m, content |-> c]

One == <<"1">>
Two == <<"2">>

\* the Sources a request of the pipeline is made of
PipelineSources ==
    { Source(U1, FileA, TextPlain, One, Text),
      Source(U1, FileA, TextPlain, Two, Text),
      Source(U2, FileA, TextPlain, One, Text),
      Source(U1, FileB, TextMd, One, Text),
      Source(U1, FileB, AppExe, One, Text),
      Source(U2, None, TextPlain, One, Text),
      Source(None, FileA, TextPlain, One, Text),
      Source(U1, FileA, TextPlain, One, Empty) }

\* the Sources of two calls that run at the same time
ConcSources ==
    { Source(U1, FileA, TextPlain, One, Text),
      Source(U1, FileA, TextPlain, Two, Text) }

SeqsUpTo(S, n) == UNION {[1..k -> S] : k \in 0..n}

\* what the splitter may make of one Document: 1..MaxChunks Chunks
ChunkTexts == {Text, Empty}

ChunkLists == UNION {[1..k -> ChunkTexts] : k \in 1..MaxChunks}

\* ---------------------------------------------------------------- state
Procs == {1, 2}

VARIABLES
    store,       \* the VectorRecords of all tenants
    nextId,      \* the next id the store assigns
    nextWrite,   \* serial number of the next add_documents call
    ncalls,      \* embed_sources calls started so far
    faulted,     \* a store call has failed at some point
    lastOk,      \* {user, source, modified} written by the last call, if it returned True
    call,        \* per caller: the position and the locals of its embed_sources call
    gate,        \* the gating/grouping specification: request and results
    conv,        \* the conversion specifications: argument and result
    dl           \* the model download specification: files and history

vars == <<store, nextId, nextWrite, ncalls, faulted, lastOk, call, gate, conv, dl>>

IdleCall ==
    [pc |-> "idle", nsources |-> 0, ddocuments |-> <<>>, idx |-> 0,
     existing_objects |-> <<>>, filtered_docs |-> <<>>, split_documents |-> <<>>,
     success |-> TRUE, result |-> TRUE, log |-> <<>>, faults |-> {}, store0 |-> {}]

\* one store or splitter call of a run: existing is the result of a query, ids
\* the ids passed to a delete or returned by an add, docs the survivors after a
\* delete, the non-empty chunks after a split, the chunks passed to an add
Event(op, user, existing, ids, docs, ok) ==
    [op |-> op, user |-> user, existing |-> existing, ids |-> ids,
     docs |-> docs, ok |-> ok]

\* the first tenant's id for every tenant of the loop
user_id_first(c) == c.ddocuments[1][1]

user_id(c) == c.ddocuments[c.idx][1]

documents(c) == c.ddocuments[c.idx][2]

NoGate == [pc |-> "off", sources |-> <<>>, filtered |-> <<>>, ddocuments |-> <<>>]

NoConv == [pc |-> "off", arg |-> <<>>, out |-> <<>>]

NoDl == [pc |-> "off"]

Init ==
    /\ store = {}
    /\ nextId = 1
    /\ nextWrite = 1
    /\ ncalls = 0
    /\ faulted = FALSE
    /\ lastOk = {}
    /\ call = [p \in Procs |-> IdleCall]
    /\ gate = NoGate
    /\ conv = NoConv
    /\ dl = NoDl

\* ---------------------------------------------------------------- _process_sources
\* the early return with the wrong value
EarlyReturnFalse(ddocuments) ==
    [returns |-> Len(ddocuments) = 0, value |-> FALSE]

\* if len(ddocuments.keys()) == 0: return True
EarlyReturn(ddocuments) ==
    [returns |-> Len(ddocuments) = 0, value |-> TRUE]

\* "=" in place of "&=": the last tenant's outcome alone
success_assign(success, n_chunks, n_ids) == n_chunks = n_ids

\* success &= len(split_documents) == len(doc_ids)
success_and(success, n_chunks, n_ids) == success /\ (n_chunks = n_ids)

\* the end of one iteration of "for user_id, documents in ddocuments.items()":
\* the next tenant, or "return success" after the last one
NextTenant(c) ==
    IF c.idx = Len(c.ddocuments)
    THEN [c EXCEPT !.pc = "done", !.result = c.success]
    ELSE [c EXCEPT !.pc = "query", !.idx = c.idx + 1,
                   !.existing_objects = <<>>, !.filtered_docs = <<>>,
                   !.split_documents = <<>>]

\* embed_sources up to the first store call: gating, grouping, early return
Start(p, pool, maxlen, maxcalls, alone) ==
    /\ call[p].pc = "idle"
    /\ ncalls < maxcalls
    /\ alone => \A q \in Procs \ {p} : call[q].pc = "idle"
    /\ \E sources \in SeqsUpTo(pool, maxlen) :
          LET dd == _sources_to_documents(sources_filtered(sources))
              c0 == [IdleCall EXCEPT !.nsources = Len(sources), !.store0 = store,
                                     !.ddocuments = dd]
          IN call' = [call EXCEPT ![p] =
                        IF EarlyReturn(dd).returns
                        THEN [c0 EXCEPT !.pc = "done", !.result = EarlyReturn(dd).value]
                        ELSE [c0 EXCEPT !.pc = "query", !.idx = 1]]
    /\ ncalls' = ncalls + 1
    /\ UNCHANGED <<store, nextId, nextWrite, faulted, lastOk, gate, conv, dl>>

\* _filter_documents: existing_objects = vectordb.get_objects_from_metadata(...)
Query(p) ==
    LET c == call[p]
        keys == DOMAIN input_sources(documents(c))
    IN /\ c.pc = "query"
       /\ \E ex \in get_objects_from_metadata(store, user_id(c), keys) :
             call' = [call EXCEPT ![p] =
                 [c EXCEPT !.pc = "delete", !.existing_objects = ex,
                           !.log = Append(c.log,
                               Event("query", user_id(c), ex, {}, <<>>, TRUE))]]
       /\ UNCHANGED <<store, nextId, nextWrite, ncalls, faulted, lastOk, gate, conv, dl>>

\* the store query raises: nothing in injest.py catches it
QueryRaises(p) ==
    LET c == call[p]
        keys == DOMAIN input_sources(documents(c))
    IN /\ c.pc = "query"
       /\ call' = [call EXCEPT ![p] =
             [c EXCEPT !.pc = "raised",
                       !.faults = c.faults \cup {<<"query", user_id(c)>>},
                       !.log = Append(c.log,
                           Event("query", user_id(c), <<>>, {}, <<>>, FALSE))]]
       /\ faulted' = TRUE
       /\ UNCHANGED <<store, nextId, nextWrite, ncalls, lastOk, gate, conv, dl>>

\* the rest of _filter_documents after the delete call, then
\* "if len(filtered_docs) == 0: continue"
AfterDelete(c, ids, ok) ==
    LET kept == _filter_documents(documents(c), c.existing_objects)
        c1 == [c EXCEPT !.filtered_docs = kept,
                        !.log = Append(c.log,
                            Event("delete", user_id(c), <<>>, ids, kept, ok))]
    IN IF Len(kept) = 0 THEN NextTenant(c1) ELSE [c1 EXCEPT !.pc = "split"]

\* a delete call that passes no id
DeleteIdsNone(c) == {}

\* list(to_delete.values())
DeleteIds(c) ==
    LET td == to_delete(input_sources(documents(c)), c.existing_objects)
    IN {td[s] : s \in DOMAIN td}

\* _filter_documents: vectordb.delete_by_ids(user_id, list(to_delete.values()))
Delete(p) ==
    LET c == call[p]
    IN /\ c.pc = "delete"
       /\ store' = delete_by_ids(store, user_id(c), DeleteIds(c))
       /\ call' = [call EXCEPT ![p] = AfterDelete(c, DeleteIds(c), TRUE)]
       /\ UNCHANGED <<nextId, nextWrite, ncalls, faulted, lastOk, gate, conv, dl>>

\* the store reports the delete as failed: the return value is not looked at
DeleteFails(p) ==
    LET c == call[p]
    IN /\ c.pc = "delete"
       /\ call' = [call EXCEPT ![p] =
             [AfterDelete(c, DeleteIds(c), FALSE) EXCEPT
                 !.faults = c.faults \cup {<<"delete", user_id(c)>>}]]
       /\ faulted' = TRUE
       /\ UNCHANGED <<store, nextId, nextWrite, ncalls, lastOk, gate, conv, dl>>

\* the store delete raises
DeleteRaises(p) ==
    LET c == call[p]
    IN /\ c.pc = "delete"
       /\ call' = [call EXCEPT ![p] =
             [c EXCEPT !.pc = "raised",
                       !.faults = c.faults \cup {<<"delete", user_id(c)>>},
                       !.log = Append(c.log,
                           Event("delete", user_id(c), <<>>, DeleteIds(c), <<>>, FALSE))]]
       /\ faulted' = TRUE
       /\ UNCHANGED <<store, nextId, nextWrite, ncalls, lastOk, gate, conv, dl>>

Chunk(doc, text) ==
    [source |-> doc.source, type |-> doc.type, modified |-> doc.modified,
     content |-> text]

\* text_splitter.split_documents(_docs) over the buckets: pieces[i] are the
\* contents of the Chunks made of the i-th Document
split_documents(docs, pieces) ==
    LET RECURSIVE flat(_)
        flat(i) == IF i = 0 THEN <<>>
                   ELSE flat(i - 1) \o Map(pieces[i], LAMBDA t : Chunk(docs[i], t))
    IN flat(Len(docs))

normalized(chunks) == Map(chunks, LAMBDA ch : [ch EXCEPT !.content = Normalize(ch.content)])

\* no filter: every chunk is kept
non_empty_all(chunks) == chunks

\* filter out empty documents
non_empty(chunks) == SelectSeq(chunks, LAMBDA ch : ch.content # <<>>)

\* bucket, split, normalize, drop the empty chunks,
\* "if len(split_documents) == 0: continue"
Split(p) ==
    LET c == call[p]
        docs == _bucket_by_type(c.filtered_docs)
    IN /\ c.pc = "split"
       /\ \E pieces \in [1..Len(docs) -> ChunkLists] :
             LET chunks == normalized(split_documents(docs, pieces))
                 kept == non_empty(chunks)
                 c1 == [c EXCEPT !.split_documents = kept,
                                 !.log = Append(c.log,
                                     Event("split", user_id(c), <<>>, {}, kept, TRUE))]
             IN call' = [call EXCEPT ![p] =
                    IF Len(kept) = 0 THEN NextTenant(c1) ELSE [c1 EXCEPT !.pc = "client"]]
       /\ UNCHANGED <<store, nextId, nextWrite, ncalls, faulted, lastOk, gate, conv, dl>>

\* user_client = vectordb.get_user_client(user_id)
GetClient(p) ==
    LET c == call[p]
    IN /\ c.pc = "client"
       /\ call' = [call EXCEPT ![p] =
             [c EXCEPT !.pc = "add",
                       !.log = Append(c.log,
                           Event("client", user_id(c), <<>>, {}, <<>>, TRUE))]]
       /\ UNCHANGED <<store, nextId, nextWrite, ncalls, faulted, lastOk, gate, conv, dl>>

\* user_client is None: return False
GetClientNone(p) ==
    LET c == call[p]
    IN /\ c.pc = "client"
       /\ call' = [call EXCEPT ![p] =
             [c EXCEPT !.pc = "done", !.result = FALSE,
                       !.faults = c.faults \cup {<<"client", user_id(c)>>},
                       !.log = Append(c.log,
                           Event("client", user_id(c), <<>>, {}, <<>>, FALSE))]]
       /\ faulted' = TRUE
       /\ UNCHANGED <<store, nextId, nextWrite, ncalls, lastOk, gate, conv, dl>>

\* a write that takes back what a short write has stored
AddNCompensating(p, n) ==
    LET c == call[p]
        chunks == c.split_documents
        recs == add_documents(user_id(c), chunks, n, nextId, nextWrite)
        c1 == [c EXCEPT !.success = success_and(c.success, Len(chunks), n),
                        !.faults = IF n = Len(chunks) THEN c.faults
                                   ELSE c.faults \cup {<<"partial", user_id(c)>>},
                        !.log = Append(c.log,
                            Event("add", user_id(c), <<>>, {r.id : r \in recs},
                                  chunks, n = Len(chunks)))]
    IN /\ c.pc = "add"
       /\ store' = IF n = Len(chunks) THEN store \cup recs ELSE store
       /\ nextId' = nextId + n
       /\ nextWrite' = nextWrite + 1
       /\ call' = [call EXCEPT ![p] = NextTenant(c1)]
       /\ faulted' = (faulted \/ n # Len(chunks))
       /\ UNCHANGED <<ncalls, lastOk, gate, conv, dl>>

\* doc_ids = user_client.add_documents(split_documents), n of them stored;
\* success &= ...; next tenant
AddN(p, n) ==
    LET c == call[p]
        chunks == c.split_documents
        recs == add_documents(user_id(c), chunks, n, nextId, nextWrite)
        c1 == [c EXCEPT !.success = success_and(c.success, Len(chunks), n),
                        !.faults = IF n = Len(chunks) THEN c.faults
                                   ELSE c.faults \cup {<<"partial", user_id(c)>>},
                        !.log = Append(c.log,
                            Event("add", user_id(c), <<>>, {r.id : r \in recs},
                                  chunks, n = Len(chunks)))]
    IN /\ c.pc = "add"
       /\ store' = store \cup recs
       /\ nextId' = nextId + n
       /\ nextWrite' = nextWrite + 1
       /\ call' = [call EXCEPT ![p] = NextTenant(c1)]
       /\ faulted' = (faulted \/ n # Len(chunks))
       /\ UNCHANGED <<ncalls, lastOk, gate, conv, dl>>

Add(p) == AddN(p, Len(call[p].split_documents))

\* the store returns fewer ids than chunks
AddPartial(p) == \E n \in 0..(Len(call[p].split_documents) - 1) : AddN(p, n)

\* what a call that returned True has written
Ingested(c) ==
    IF c.pc = "done" /\ c.result
    THEN UNION {{[user |-> c.log[i].user, source |-> ch.source, modified |-> ch.modified] :
                    ch \in Range(c.log[i].docs)} :
                i \in {j \in 1..Len(c.log) : c.log[j].op = "add"}}
    ELSE {}

\* embed_sources has returned (or raised) and the caller is free again
Return(p) ==
    /\ call[p].pc \in {"done", "raised"}
    /\ lastOk' = Ingested(call[p])
    /\ call' = [call EXCEPT ![p] = IdleCall]
    /\ UNCHANGED <<store, nextId, nextWrite, ncalls, faulted, gate, conv, dl>>

Step(p) ==
    \/ Query(p)
    \/ QueryRaises(p)
    \/ Delete(p)
    \/ DeleteFails(p)
    \/ DeleteRaises(p)
    \/ Split(p)
    \/ GetClient(p)
    \/ GetClientNone(p)
    \/ Add(p)
    \/ AddPartial(p)
    \/ Return(p)

\* one caller, one call after the other
Next ==
    \/ Start(1, PipelineSources, MaxSources, MaxCalls, TRUE)
    \/ Step(1)

Spec == Init /\ [][Next]_vars

\* ---------------------------------------------------------------- one call
\* The store outlives the process: one embed_sources call on a store as
\* earlier fault-free calls left it.
Rec(id, u, f, m, w) == [id |-> id, user |-> u, source |-> f, modified |-> m, write |-> w]

SeedStores ==
    { {},
      {Rec(1, U1, FileA, One, 1)},
      {Rec(1, U1, FileA, Two, 1)},
      {Rec(1, U1, FileA, One, 1), Rec(2, U1, FileA, One, 1)},
      {Rec(1, U1, FileA, One, 1), Rec(2, U2, FileA, One, 2)} }

InitCall ==
    /\ store \in SeedStores
    /\ nextId = Cardinality(store) + 1
    /\ nextWrite = Cardinality({r.write : r \in store}) + 1
    /\ ncalls = 0
    /\ faulted = FALSE
    /\ lastOk = {}
    /\ call = [p \in Procs |-> IdleCall]
    /\ gate = NoGate
    /\ conv = NoConv
    /\ dl = NoDl

NextCall ==
    \/ Start(1, PipelineSources, MaxSources, 1, TRUE)
    \/ Step(1)

SpecCall == InitCall /\ [][NextCall]_vars

\* ---------------------------------------------------------------- two callers
\* two embed_sources calls may run at the same time: nothing in injest.py
\* takes a lock
NextConc ==
    \E p \in Procs :
        \/ Start(p, ConcSources, MaxConcSources, MaxCalls, FALSE)
        \/ Step(p)

SpecConc == Init /\ [][NextConc]_vars

\* ---------------------------------------------------------------- gating and grouping alone
FileShort == <<"f", "i", "l", "e", ":">>

GateSources ==
    { Source(u, f, t, One, c) :
        u \in {None, U1}, f \in {None, FileA, FileB, FileShort},
        t \in {None, TextPlain, AppExe}, c \in {None, Empty, Text} }

InitGate ==
    /\ store = {}
    /\ nextId = 1
    /\ nextWrite = 1
    /\ ncalls = 0
    /\ faulted = FALSE
    /\ lastOk = {}
    /\ call = [p \in Procs |-> IdleCall]
    /\ gate \in {[NoGate EXCEPT !.pc = "in", !.sources = ss] :
                    ss \in SeqsUpTo(GateSources, MaxGateSources)}
    /\ conv = NoConv
    /\ dl = NoDl

\* embed_sources: sources_filtered, then _process_sources: _sources_to_documents
Gate ==
    /\ gate.pc = "in"
    /\ gate' = [gate EXCEPT !.pc = "out",
                            !.filtered = sources_filtered(gate.sources),
                            !.ddocuments =
                                _sources_to_documents(sources_filtered(gate.sources))]
    /\ UNCHANGED <<store, nextId, nextWrite, ncalls, faulted, lastOk, call, conv, dl>>

NextGate == Gate

SpecGate == InitGate /\ [][NextGate]_vars

\* ---------------------------------------------------------------- normalization alone
\* length of a chunk's text
MaxTextLen == 6

\* a letter, the blank, the tab, the carriage return, the newline
TextChars == {"a", " ", "\t", "\r", "\n"}

Texts == UNION {[1..n -> TextChars] : n \in 0..MaxTextLen}

Idle ==
    /\ store = {}
    /\ nextId = 1
    /\ nextWrite = 1
    /\ ncalls = 0
    /\ faulted = FALSE
    /\ lastOk = {}
    /\ call = [p \in Procs |-> IdleCall]

InitNormalize ==
    /\ Idle
    /\ gate = NoGate
    /\ conv \in {[NoConv EXCEPT !.pc = "in", !.arg = t] : t \in Texts}
    /\ dl = NoDl

\* the two re.sub calls on one chunk's page_content
NormalizeText ==
    /\ conv.pc = "in"
    /\ conv' = [conv EXCEPT !.pc = "out", !.out = Normalize(conv.arg)]
    /\ UNCHANGED <<store, nextId, nextWrite, ncalls, faulted, lastOk, call, gate, dl>>

NextNormalize == NormalizeText

SpecNormalize == InitNormalize /\ [][NextNormalize]_vars

\* ---------------------------------------------------------------- to_int alone
\* length of a modified header
MaxIntLen == 3

IntChars == {"0", "7", "-", "+", " ", "x"}

\* source.headers.get('modified'): absent, or a text
Headers == {None} \cup UNION {[1..n -> IntChars] : n \in 0..MaxIntLen}

InitToInt ==
    /\ Idle
    /\ gate = NoGate
    /\ conv \in {[NoConv EXCEPT !.pc = "in", !.arg = h] : h \in Headers}
    /\ dl = NoDl

ToInt ==
    /\ conv.pc = "in"
    /\ conv' = [conv EXCEPT !.pc = "out", !.out = to_int(conv.arg)]
    /\ UNCHANGED <<store, nextId, nextWrite, ncalls, faulted, lastOk, call, gate, dl>>

NextToInt == ToInt

SpecToInt == InitToInt /\ [][NextToInt]_vars

\* ---------------------------------------------------------------- grouping alone
\* number of Sources in a request of the grouping specification
MaxGroupSources == 3

GroupSources ==
    { Source(u, f, TextPlain, One, c) :
        u \in {None, U1, U2}, f \in {FileA, FileB}, c \in {None, Empty, Text} }

InitGroup ==
    /\ Idle
    /\ gate = NoGate
    /\ conv \in {[NoConv EXCEPT !.pc = "in", !.arg = ss] :
                    ss \in SeqsUpTo(GroupSources, MaxGroupSources)}
    /\ dl = NoDl

Group ==
    /\ conv.pc = "in"
    /\ conv' = [conv EXCEPT !.pc = "out", !.out = _sources_to_documents(conv.arg)]
    /\ UNCHANGED <<store, nextId, nextWrite, ncalls, faulted, lastOk, call, gate, dl>>

NextGroup == Group

SpecGroup == InitGroup /\ [][NextGroup]_vars

\* ---------------------------------------------------------------- download.py
\* os.getenv('MODEL_DIR', 'persistent_storage/model_files'), as model_init sets it
_MODELS_DIR ==
    <<"p", "e", "r", "s", "i", "s", "t", "e", "n", "t", "_", "s", "t", "o", "r", "a", "g", "e", "/", "m", "o", "d", "e", "l", "_", "f", "i", "l", "e", "s">>

_DEFAULT_EXT == <<".", "t", "a", "r", ".", "g", "z">>

_KNOWN_EXTENSIONS ==
    << <<"g", "g", "u", "f">>,
       <<"h", "5">>,
       <<"p", "t">>,
       <<"b", "i", "n">>,
       <<"j", "s", "o", "n">>,
       <<"t", "x", "t">>,
       <<"p", "k", "l">>,
       <<"p", "i", "c", "k", "l", "e">>,
       <<"s", "a", "f", "e", "t", "e", "n", "s", "o", "r", "s">>,
       <<"t", "a", "r", ".", "g", "z">>,
       <<"t", "a", "r", ".", "b", "z", "2">>,
       <<"t", "a", "r", ".", "x", "z">>,
       <<"z", "i", "p">> >>

_KNOWN_ARCHIVES ==
    << <<".", "t", "a", "r", ".", "g", "z">>,
       <<".", "t", "a", "r", ".", "b", "z", "2">>,
       <<".", "t", "a", "r", ".", "x", "z">>,
       <<".", "z", "i", "p">> >>

\* 'hkunlp/instructor-base'
InstructorBase ==
    <<"h", "k", "u", "n", "l", "p", "/", "i", "n", "s", "t", "r", "u", "c", "t", "o", "r", "-", "b", "a", "s", "e">>

\* 'hkunlp_instructor-base'
InstructorBaseExtracted ==
    <<"h", "k", "u", "n", "l", "p", "_", "i", "n", "s", "t", "r", "u", "c", "t", "o", "r", "-", "b", "a", "s", "e">>

\* 'dolphin-2.2.1-mistral-7b.Q5_K_M.gguf'
Dolphin ==
    <<"d", "o", "l", "p", "h", "i", "n", "-", "2", ".", "2", ".", "1", "-", "m", "i", "s", "t", "r", "a", "l", "-", "7", "b", ".", "Q", "5", "_", "K", "_", "M", ".", "g", "g", "u", "f">>

\* name -> (extracted name, extension, pinned SHA-256 digest)
_model_config ==
    [n \in {InstructorBase, Dolphin} |->
        IF n = InstructorBase
        THEN <<InstructorBaseExtracted, _DEFAULT_EXT,
               "19751ec112564f2c568b96a794dd4a16f335ee42b2535a890b577fc5137531eb">>
        ELSE <<Dolphin, <<>>,
               "591a9b807bfa6dba9a5aed1775563e4364d7b7b3b714fc1f9e427fa0e2bf6ace">>]

endswith(s, suffix) ==
    /\ Len(suffix) <= Len(s)
    /\ SubSeq(s, Len(s) - Len(suffix) + 1, Len(s)) = suffix

\* str.endswith(tuple)
endswith_any(s, suffixes) == \E i \in 1..Len(suffixes) : endswith(s, suffixes[i])

\* the positions of "/" in a path
Slashes(p) == {i \in 1..Len(p) : p[i] = "/"}

Last(S) == CHOOSE i \in S : \A j \in S : j <= i

\* os.path.basename
basename(p) ==
    IF Slashes(p) = {} THEN p ELSE SubSeq(p, Last(Slashes(p)) + 1, Len(p))

\* re.sub(r'^.*' + _MODELS_DIR + r'/', '', name): the greedy '^.*' takes the
\* text up to the last occurrence of the models directory and its slash
strip_models_dir(name) ==
    LET pat == _MODELS_DIR \o <<"/">>
        ends == {i \in Len(pat)..Len(name) : SubSeq(name, i - Len(pat) + 1, i) = pat}
    IN IF ends = {} THEN name ELSE SubSeq(name, Last(ends) + 1, Len(name))

\* pathlib.Path(dir, p).as_posix(): an absolute p replaces dir
Path(dir, p) ==
    IF p = <<>> THEN dir
    ELSE IF p[1] = "/" THEN p
    ELSE dir \o <<"/">> \o p

\* The file system is a set of [path, content]; content is "dir", "empty"
\* (created and nothing written), "corrupt" (a body that is not the model),
\* "model" (the model's file or archive) or "extracted" (an archive member).
exists(fs, path) == \E e \in fs : e.path = path

\* open(path, 'w+b') and the writes that follow: path holds content
Write(fs, path, content) ==
    {e \in fs : e.path # path} \cup {[path |-> path, content |-> content]}

\* os.remove
Remove(fs, path) == {e \in fs : e.path # path}

\* os.rename
Rename(fs, from, to) ==
    LET e == CHOOSE x \in fs : x.path = from
    IN Write(Remove(fs, from), to, e.content)

\* os.path.exists of the path as given, of the path under the models
\* directory, of the extracted name of a manifest entry
_model_exists(fs, model_name_or_path) ==
    \/ exists(fs, model_name_or_path)
    \/ exists(fs, Path(_MODELS_DIR, model_name_or_path))
    \/ /\ model_name_or_path \in DOMAIN _model_config
       /\ exists(fs, Path(_MODELS_DIR, _model_config[model_name_or_path][1]))

model_name(model_name_or_path) ==
    IF startswith(model_name_or_path, <<"/">>)
    THEN basename(model_name_or_path)
    ELSE strip_models_dir(model_name_or_path)

\* the name of the file on the server and in the models directory
model_file(model_name_or_path) ==
    LET name == model_name(model_name_or_path) IN
    IF name \in DOMAIN _model_config
    THEN _model_config[name][1] \o _model_config[name][2]
    ELSE IF endswith_any(name, _KNOWN_EXTENSIONS) THEN name
    ELSE name \o _DEFAULT_EXT

filepath(model_name_or_path) == Path(_MODELS_DIR, model_file(model_name_or_path))

\* hashlib.file_digest(f, 'sha256').hexdigest(): the pinned digest for the
\* model's own bytes, another one for any other body
file_digest(content, name) ==
    IF content = "model" THEN _model_config[name][3] ELSE "0"

\* the archive's top-level member: the extracted name of a manifest entry,
\* else the file name without its archive extension
Member(model_name_or_path) ==
    LET name == model_name(model_name_or_path)
        file == model_file(model_name_or_path)
        ext == CHOOSE i \in 1..Len(_KNOWN_ARCHIVES) : endswith(file, _KNOWN_ARCHIVES[i])
    IN IF name \in DOMAIN _model_config THEN _model_config[name][1]
       ELSE SubSeq(file, 1, Len(file) - Len(_KNOWN_ARCHIVES[ext]))

\* _extract_n_save: [fs, result], result "oserror" when it raises OSError
_extract_n_save(fs, model_name_or_path, extract_fails) ==
    LET path == filepath(model_name_or_path) IN
    IF ~exists(fs, path) THEN [fs |-> fs, result |-> "oserror"]
    ELSE IF endswith_any(path, _KNOWN_ARCHIVES)
    THEN IF extract_fails THEN [fs |-> fs, result |-> "oserror"]
         ELSE [fs |-> Write(Remove(fs, path),
                            Path(_MODELS_DIR, Member(model_name_or_path)), "extracted"),
               result |-> "true"]
    ELSE [fs |-> Rename(fs, path,
                        Path(_MODELS_DIR, strip_models_dir(model_name(model_name_or_path)))),
          result |-> "true"]

\* what the environment does to one _download_model call: open() raises or
\* not, the status and the body of the response, the extraction raises or not
Responses ==
    [open_fails : BOOLEAN, status_code : {200, 404}, body : {"model", "corrupt"},
     extract_fails : BOOLEAN]

\* _download_model: the files after the call, the returned value, whether a
\* request was issued, and why a failed call failed
_download_model(fs, model_name_or_path, r) ==
    LET name == model_name(model_name_or_path)
        path == filepath(model_name_or_path)
        opened == Write(fs, path, "empty")
        copied == Write(fs, path, r.body)
        saved == _extract_n_save(copied, model_name_or_path, r.extract_fails)
        Out(f, res, req, why) == [fs |-> f, result |-> res, requested |-> req, why |-> why]
    IN IF model_name_or_path = <<>> THEN Out(fs, FALSE, FALSE, "name")
       ELSE IF _model_exists(fs, model_name_or_path) THEN Out(fs, TRUE, FALSE, "exists")
       ELSE IF r.open_fails THEN Out(fs, FALSE, FALSE, "oserror")
       ELSE IF r.status_code >= 400 THEN Out(opened, FALSE, TRUE, "status")
       ELSE IF name \in DOMAIN _model_config
               /\ file_digest(r.body, name) # _model_config[name][3]
            THEN Out(copied, FALSE, TRUE, "digest")
       ELSE IF saved.result = "oserror" THEN Out(saved.fs, FALSE, TRUE, "oserror")
       ELSE Out(saved.fs, TRUE, TRUE, "downloaded")

\* the model names and paths of the calls
ModelFile == <<"a", ".", "g", "g", "u", "f">>
ModelFileAbsolute == <<"/", "x", "/", "a", ".", "g", "g", "u", "f">>
ModelFileInDir == _MODELS_DIR \o <<"/">> \o ModelFile
ModelArchive == <<"b", ".", "z", "i", "p">>
ModelPlain == <<"b">>

ModelNames ==
    {Empty, InstructorBase, Dolphin, ModelFile, ModelFileAbsolute, ModelFileInDir,
     ModelArchive, ModelPlain}

\* number of _download_model calls of a run
MaxDownloads == 2

NoReport == [op |-> "none", names |-> {}, result |-> FALSE, requested |-> FALSE,
             why |-> "none", before |-> {}, again |-> FALSE]

InitDownload ==
    /\ Idle
    /\ gate = NoGate
    /\ conv = NoConv
    /\ dl = [pc |-> "on", n |-> 0,
             fs |-> {[path |-> _MODELS_DIR, content |-> "dir"]},
             failed |-> {}, provisioned |-> {}, last |-> NoReport]

\* one _download_model call, as download_all_models makes them
DownloadModel ==
    /\ dl.pc = "on"
    /\ dl.n < MaxDownloads
    /\ \E name \in ModelNames : \E r \in Responses :
          LET out == _download_model(dl.fs, name, r)
              same == {m \in ModelNames : filepath(m) = filepath(name)}
          IN dl' = [dl EXCEPT
                !.n = dl.n + 1,
                !.fs = out.fs,
                !.failed = IF out.why \in {"status", "digest"} THEN dl.failed \cup {name}
                           ELSE IF out.why = "downloaded" THEN dl.failed \ same
                           ELSE dl.failed,
                !.provisioned = IF out.why = "downloaded" THEN {name} ELSE {},
                !.last = [op |-> "download", names |-> {name}, result |-> out.result,
                          requested |-> out.requested, why |-> out.why,
                          before |-> dl.fs, again |-> name \in dl.provisioned]]
    /\ UNCHANGED <<store, nextId, nextWrite, ncalls, faulted, lastOk, call, gate, conv>>

\* one _model_exists call
ModelExists ==
    /\ dl.pc = "on"
    /\ \E name \in ModelNames :
          dl' = [dl EXCEPT
                !.last = [NoReport EXCEPT !.op = "exists", !.names = {name},
                                          !.result = _model_exists(dl.fs, name),
                                          !.before = dl.fs]]
    /\ UNCHANGED <<store, nextId, nextWrite, ncalls, faulted, lastOk, call, gate, conv>>

\* model_init with DISABLE_CUSTOM_DOWNLOAD_URI unset: both configured models exist
model_init(fs, embedding, llm) ==
    /\ embedding # None /\ _model_exists(fs, embedding)
    /\ llm # None /\ _model_exists(fs, llm)

ModelInit ==
    /\ dl.pc = "on"
    /\ \E embedding \in {None, InstructorBase} : \E llm \in {None, Dolphin, ModelFile} :
          dl' = [dl EXCEPT
                !.last = [NoReport EXCEPT !.op = "init",
                                          !.names = {embedding, llm} \ {None},
                                          !.result = model_init(dl.fs, embedding, llm),
                                          !.before = dl.fs]]
    /\ UNCHANGED <<store, nextId, nextWrite, ncalls, faulted, lastOk, call, gate, conv>>

NextDownload ==
    \/ DownloadModel
    \/ ModelExists
    \/ ModelInit

SpecDownload == InitDownload /\ [][NextDownload]_vars

\* ================================================================ properties
EventsOf(c, op) == {i \in 1..Len(c.log) : c.log[i].op = op}

TenantAt(c, k) == c.ddocuments[k][1]

DocsAt(c, k) == c.ddocuments[k][2]

DocsOfUser(c, u) ==
    DocsAt(c, CHOOSE k \in 1..Len(c.ddocuments) : TenantAt(c, k) = u)

Called(c, op, u) == \E i \in EventsOf(c, op) : c.log[i].user = u

SamePath(r, u, f) == r.user = u /\ r.source = f

\* the modified values the requests carry, read as numbers
ModVal(m) == IF m = One THEN 1 ELSE IF m = Two THEN 2 ELSE 0

\* C1: after any sequence of sequential embed_sources calls in which no store
\* call failed, all records of one tenant with one source path were written by
\* the same single write: no record of an older version remains.
C1_OneLiveVersion ==
    (call[1].pc \in {"idle", "done"} /\ ~faulted) =>
        \A r1 \in store : \A r2 \in store :
            (r1.source # None /\ SamePath(r2, r1.user, r1.source)) => r1.write = r2.write

\* the call holds a Source of tenant x.user with path x.source, and every such
\* Source has x.modified
Resubmitted(c, x) ==
    \E k \in 1..Len(c.ddocuments) :
        /\ TenantAt(c, k) = x.user
        /\ \E d \in Range(DocsAt(c, k)) : d.source = x.source
        /\ \A d \in Range(DocsAt(c, k)) : d.source = x.source => d.modified = x.modified

\* C2: idempotence.  When the previous call returned True and wrote Source x,
\* a call with the same Source (tenant, path, modified) deletes no record of
\* that path, writes no chunk of it, and leaves its records as they were.
C2_Idempotent ==
    LET c == call[1] IN
    (c.pc = "done" /\ ~faulted) =>
        \A x \in lastOk :
            Resubmitted(c, x) =>
                /\ \A i \in EventsOf(c, "delete") : \A r \in c.store0 :
                      r.id \in c.log[i].ids => ~SamePath(r, x.user, x.source)
                /\ \A i \in EventsOf(c, "add") : \A ch \in Range(c.log[i].docs) :
                      ~(c.log[i].user = x.user /\ ch.source = x.source)
                /\ {r \in store : SamePath(r, x.user, x.source)}
                      = {r \in c.store0 : SamePath(r, x.user, x.source)}

\* C3: re-embedding on change.  For every Document of a tenant whose source
\* path has an existing record (the one the query returned), the record's id is
\* in the delete batch and the Document survives exactly when the Document's
\* modified is greater than the record's; otherwise the record is not deleted
\* and the Document is not a survivor.
C3_ReembedExactlyWhenNewer ==
    LET c == call[1] IN
    \A i \in EventsOf(c, "delete") :
        c.log[i].ok =>
            LET q == c.log[i - 1]
                d == c.log[i]
            IN \A doc \in Range(DocsOfUser(c, d.user)) :
                  doc.source \in DOMAIN q.existing =>
                      LET old == q.existing[doc.source] IN
                      IF ModVal(doc.modified) > ModVal(old.modified)
                      THEN old.id \in d.ids /\ doc \in Range(d.docs)
                      ELSE old.id \notin d.ids /\ doc \notin Range(d.docs)

\* the splitter made one chunk, not empty, of every surviving Document
OneChunkPerDocument(c) ==
    /\ \A i \in EventsOf(c, "split") : Len(c.log[i].docs) = Len(c.log[i - 1].docs)
    /\ \A i \in EventsOf(c, "add") :
          \A a \in 1..Len(c.log[i].docs) : \A b \in 1..Len(c.log[i].docs) :
              c.log[i].docs[a].source = c.log[i].docs[b].source => a = b

\* C4: two embed_sources calls of one tenant for the same source path, run at
\* the same time without any store failure and with one chunk per Document
\* (run one after the other, such calls leave one record for the path),
\* end with neither duplicate live records (records of two writes for the
\* path) nor a dropped record (a path both ingested that has no record).
C4_ConcurrentCallsSerialized ==
    (/\ \A p \in Procs : call[p].pc = "done" /\ OneChunkPerDocument(call[p])
     /\ ~faulted) =>
        /\ \A r1 \in store : \A r2 \in store :
              SamePath(r2, r1.user, r1.source) => r1.write = r2.write
        /\ \A p \in Procs : \A k \in 1..Len(call[p].ddocuments) :
              \A d \in Range(DocsAt(call[p], k)) :
                  \E r \in store : SamePath(r, TenantAt(call[p], k), d.source)

OnlyPartialWrites(c) ==
    c.faults # {} /\ \A f \in c.faults : f[1] = "partial"

\* C5: when the only store failures of a call are writes that returned fewer
\* ids than chunks, every tenant of the request is reconciled (queried, and
\* the delete issued), every tenant with non-empty chunks has them submitted to
\* the store, every full write is in the store, and the call returns False.
C5_AllTenantsAttempted ==
    LET c == call[1] IN
    (c.pc = "done" /\ OnlyPartialWrites(c)) =>
        /\ c.result = FALSE
        /\ \A k \in 1..Len(c.ddocuments) :
              LET u == TenantAt(c, k) IN
              /\ Called(c, "query", u)
              /\ Called(c, "delete", u)
              /\ \A i \in EventsOf(c, "delete") :
                    (c.log[i].user = u /\ c.log[i].docs # <<>>) => Called(c, "split", u)
              /\ \A i \in EventsOf(c, "split") :
                    (c.log[i].user = u /\ c.log[i].docs # <<>>) =>
                        \E j \in EventsOf(c, "add") :
                            /\ c.log[j].user = u
                            /\ c.log[j].docs = c.log[i].docs
                            /\ c.log[j].ok =>
                                  /\ Cardinality(c.log[j].ids) = Len(c.log[j].docs)
                                  /\ \A id \in c.log[j].ids :
                                        \E r \in store : r.id = id /\ r.user = u

\* a call of two tenants: the first one's write came back short, the second
\* one's was complete
C5_Witness ==
    LET c == call[1] IN
    /\ c.pc = "done"
    /\ c.faults = {<<"partial", U1>>}
    /\ Len(c.ddocuments) = 2
    /\ TenantAt(c, 1) = U1
    /\ c.result = FALSE
    /\ \E j \in EventsOf(c, "add") :
          c.log[j].user = U2 /\ c.log[j].ok /\ c.log[j].ids # {}

\* C6: a null store client is tenant-local: the call returns False and every
\* tenant later in iteration order is still reconciled.
C6_ClientNullTenantLocal ==
    LET c == call[1] IN
    c.pc = "done" =>
        \A k \in 1..Len(c.ddocuments) :
            <<"client", TenantAt(c, k)>> \in c.faults =>
                /\ c.result = FALSE
                /\ \A j \in (k + 1)..Len(c.ddocuments) : Called(c, "query", TenantAt(c, j))

\* C7: a failed store query or delete is a tenant-level failure: the call
\* returns False (it does not raise), none of that tenant's Documents is split
\* or written, and the other tenants are still processed.
C7_ReconcileFailureTenantLocal ==
    LET c == call[1] IN
    c.pc \in {"done", "raised"} =>
        \A k \in 1..Len(c.ddocuments) :
            LET u == TenantAt(c, k) IN
            (<<"query", u>> \in c.faults \/ <<"delete", u>> \in c.faults) =>
                /\ c.pc = "done"
                /\ c.result = FALSE
                /\ ~Called(c, "split", u)
                /\ ~Called(c, "add", u)
                /\ \A j \in 1..Len(c.ddocuments) : Called(c, "query", TenantAt(c, j))

\* C8: every Document without a source path is among the survivors that
\* _filter_documents returns.
C8_NullSourcePassesThrough ==
    LET c == call[1] IN
    \A i \in EventsOf(c, "delete") :
        c.log[i].ok =>
            \A doc \in Range(DocsOfUser(c, c.log[i].user)) :
                doc.source = None => doc \in Range(c.log[i].docs)

\* the filename starts with 'file: '
HasMarker(f) ==
    /\ Len(f) >= 6
    /\ f[1] = "f" /\ f[2] = "i" /\ f[3] = "l" /\ f[4] = "e" /\ f[5] = ":" /\ f[6] = " "

Allowlisted(s) == s.type \in SUPPORTED_MIMETYPES

C10_NoTenantsNoStoreCalls ==
    LET c == call[1] IN
    (c.pc = "done" /\ Len(c.ddocuments) = 0) =>
        /\ c.result = TRUE
        /\ c.log = <<>>
        /\ store = c.store0

\* a request of two Sources, none of which is grouped, on a store with records
C10_Witness ==
    LET c == call[1] IN
    /\ c.pc = "done"
    /\ c.nsources = 2
    /\ Len(c.ddocuments) = 0
    /\ c.result = TRUE
    /\ store # {}

\* the add call at position i of the log got back as many ids as chunks
FullWrite(c, i) == Cardinality(c.log[i].ids) = Len(c.log[i].docs)

\* C11 as stated: the returned boolean is true exactly when every tenant that
\* reached the write got back as many ids as chunks (a tenant that never
\* reached the write counting as success).
C11_TrueIffEveryWriteFull ==
    LET c == call[1] IN
    c.pc = "done" =>
        (c.result <=> \A i \in EventsOf(c, "add") : FullWrite(c, i))

\* C11: the returned boolean is true exactly when no tenant's client was
\* null and every write got back as many ids as chunks; a tenant skipped
\* before the write (no survivors, no non-empty chunk) counts as success.
C11_TrueIffEveryPersistOk ==
    LET c == call[1] IN
    c.pc = "done" =>
        (c.result <=> /\ \A i \in EventsOf(c, "client") : c.log[i].ok
                      /\ \A i \in EventsOf(c, "add") : FullWrite(c, i))

\* two tenants: one is skipped before the write, the other's write is
\* complete, and the call returns True
C11_Witness ==
    LET c == call[1] IN
    /\ c.pc = "done"
    /\ Len(c.ddocuments) = 2
    /\ Cardinality(EventsOf(c, "add")) = 1
    /\ \A i \in EventsOf(c, "add") : FullWrite(c, i)
    /\ \E i \in EventsOf(c, "delete") : c.log[i].docs = <<>>
    /\ c.result = TRUE

\* the number of queries among the first i store calls: the position in
\* iteration order of the tenant in process at call i
QueriesUpTo(c, i) == Cardinality({j \in EventsOf(c, "query") : j <= i})

\* the query that opened the tenant pipeline call i belongs to
QueryOf(c, i) ==
    CHOOSE q \in EventsOf(c, "query") :
        q <= i /\ \A j \in EventsOf(c, "query") : j <= i => j <= q

\* C12: tenant isolation.  Every store call made while the k-th tenant is in
\* process names that tenant; a query returns records of that tenant only;
\* the ids passed to a delete are ids its own query returned; a record that
\* left the store was deleted by a call of its own tenant and a record that
\* entered it was written by a call of its own tenant, so the records of
\* every other tenant are as they were.
C12_TenantIsolation ==
    LET c == call[1] IN
    /\ \A i \in 1..Len(c.log) :
          LET e == c.log[i]
              q == c.log[QueryOf(c, i)]
          IN /\ QueriesUpTo(c, i) \in 1..Len(c.ddocuments)
             /\ e.user = TenantAt(c, QueriesUpTo(c, i))
             /\ \A s \in DOMAIN e.existing : e.existing[s].user = e.user
             /\ e.op = "delete" =>
                   e.ids \subseteq {q.existing[s].id : s \in DOMAIN q.existing}
    /\ c.pc # "idle" =>
          /\ \A r \in c.store0 \ store :
                \E i \in EventsOf(c, "delete") :
                    c.log[i].user = r.user /\ r.id \in c.log[i].ids
          /\ \A r \in store \ c.store0 :
                \E i \in EventsOf(c, "add") :
                    c.log[i].user = r.user /\ r.id \in c.log[i].ids

\* two tenants with the same source path on a store that holds a record of
\* each: the first tenant's record is replaced, the second tenant's record
\* is still there when the first tenant's pipeline has ended
C12_Witness ==
    LET c == call[1] IN
    /\ Len(c.ddocuments) = 2
    /\ c.idx = 2
    /\ \E i \in EventsOf(c, "delete") :
          c.log[i].user = TenantAt(c, 1) /\ c.log[i].ids # {} /\ c.log[i].ok
    /\ \E i \in EventsOf(c, "add") :
          c.log[i].user = TenantAt(c, 1) /\ c.log[i].ids # {}
    /\ \E r \in c.store0 : r.user = TenantAt(c, 2) /\ r \in store

\* C13: delete-before-insert.  Every add of a tenant comes after the delete
\* call of that tenant, which comes after its query, and no add of the
\* tenant precedes the delete; every chunk written for a source the query
\* found has the found record's id in the delete call; and once the delete
\* has succeeded no record with a deleted id is in the store.
C13_DeleteBeforeInsert ==
    LET c == call[1] IN
    /\ \A a \in EventsOf(c, "add") :
          \E d \in EventsOf(c, "delete") : \E q \in EventsOf(c, "query") :
              /\ q < d /\ d < a
              /\ c.log[q].user = c.log[a].user
              /\ c.log[d].user = c.log[a].user
              /\ \A b \in EventsOf(c, "add") : c.log[b].user = c.log[a].user => d < b
              /\ \A ch \in Range(c.log[a].docs) :
                    ch.source \in DOMAIN c.log[q].existing =>
                        c.log[q].existing[ch.source].id \in c.log[d].ids
    /\ \A d \in EventsOf(c, "delete") :
          c.log[d].ok =>
              \A r \in store : ~(r.user = c.log[d].user /\ r.id \in c.log[d].ids)

\* a stored source is re-embedded: its record is deleted, then its chunks
\* are written
C13_Witness ==
    LET c == call[1] IN
    /\ c.pc = "done"
    /\ \E a \in EventsOf(c, "add") : \E d \in EventsOf(c, "delete") :
          /\ d < a
          /\ c.log[d].user = c.log[a].user
          /\ c.log[d].ok
          /\ c.log[d].ids # {}
          /\ c.log[a].ids # {}

\* the tenant's persist step failed at call i: a null client or a short write
FailedWrite(c, i) ==
    \/ c.log[i].op = "client" /\ ~c.log[i].ok
    \/ c.log[i].op = "add" /\ ~FullWrite(c, i)

\* the records the tenant's query found for sources that call i is writing
Superseded(c, i) ==
    LET q == c.log[QueryOf(c, i)]
        d == c.log[QueryOf(c, i) + 1]
    IN {q.existing[s] : s \in {t \in DOMAIN q.existing : q.existing[t].id \in d.ids}}

\* C14: no compensation after a failed write.  When a tenant's write fails
\* after its delete succeeded, no later store call names that tenant, the
\* superseded records stay out of the store, and every chunk the store did
\* write is still in it.
C14_NoCompensation ==
    LET c == call[1] IN
    \A i \in 1..Len(c.log) :
        (FailedWrite(c, i) /\ c.log[QueryOf(c, i) + 1].ok) =>
            /\ \A j \in (i + 1)..Len(c.log) : c.log[j].user # c.log[i].user
            /\ \A r \in Superseded(c, i) : r \notin store
            /\ \A id \in c.log[i].ids :
                  \E r \in store : r.id = id /\ r.user = c.log[i].user

\* a stored source is re-embedded in two chunks, one of which is written:
\* the call returns False, the old record is gone, the one chunk is there
C14_Witness ==
    LET c == call[1] IN
    /\ c.pc = "done"
    /\ c.result = FALSE
    /\ \E i \in EventsOf(c, "add") :
          /\ ~FullWrite(c, i)
          /\ c.log[i].ids # {}
          /\ Superseded(c, i) # {}
          /\ \A r \in Superseded(c, i) : r \notin store

\* C15: no chunk with empty content is passed to the store write; a tenant
\* whose chunks are all empty after normalization gets no client resolution
\* and no write; and a call without a store failure returns True.
C15_NoEmptyChunkWritten ==
    LET c == call[1] IN
    /\ \A a \in EventsOf(c, "add") :
          /\ c.log[a].docs # <<>>
          /\ \A ch \in Range(c.log[a].docs) : ch.content # Empty
    /\ \A s \in EventsOf(c, "split") :
          c.log[s].docs = <<>> =>
              \A j \in EventsOf(c, "client") \cup EventsOf(c, "add") :
                  c.log[j].user # c.log[s].user
    /\ (c.pc = "done" /\ c.faults = {}) => c.result = TRUE

\* two tenants: all chunks of one are empty, the other is written, the call
\* returns True
C15_Witness ==
    LET c == call[1] IN
    /\ c.pc = "done"
    /\ Len(c.ddocuments) = 2
    /\ \E s \in EventsOf(c, "split") : c.log[s].docs = <<>>
    /\ \E a \in EventsOf(c, "add") : FullWrite(c, a)
    /\ c.result = TRUE

\* whitespace other than the newline
Blanks == Whitespace \ {"\n"}

RECURSIVE BlankRun(_, _)
BlankRun(s, i) ==
    IF i <= Len(s) /\ s[i] \in Blanks THEN 1 + BlankRun(s, i + 1) ELSE 0

\* a run of five or more blanks becomes one blank (the last of the run, as
\* the code's group reference has it); a newline ends a run and is kept
RECURSIVE CollapseBlanks(_, _)
CollapseBlanks(s, i) ==
    IF i > Len(s) THEN <<>>
    ELSE IF BlankRun(s, i) >= 5
         THEN <<s[i + BlankRun(s, i) - 1]>> \o CollapseBlanks(s, i + BlankRun(s, i))
    ELSE <<s[i]>> \o CollapseBlanks(s, i + 1)

NewlinesIn(s) == Cardinality({i \in 1..Len(s) : s[i] = "\n"})

\* C16: the normalized text is the text after the two rules in order: three
\* or more newline sequences become two newlines, then five or more
\* whitespace characters other than the newline become one; the second rule
\* consumes and alters no newline.
C16_NormalizationAsStated ==
    conv.pc = "out" =>
        /\ conv.out = CollapseBlanks(SubNewlines(conv.arg, 1), 1)
        /\ NewlinesIn(conv.out) = NewlinesIn(SubNewlines(conv.arg, 1))

\* what a modified header reads as: nothing, a numeral with a minus sign, a
\* numeral without one, or no numeral at all
Absent(h) == h = None

Minus(h) ==
    LET t == Strip(h) IN
    ~Absent(h) /\ t # <<>> /\ t[1] = "-" /\ IsNumeral(Tail(t))

Plain(h) ==
    LET t == Strip(h) IN
    /\ ~Absent(h)
    /\ t # <<>>
    /\ IF t[1] = "+" THEN IsNumeral(Tail(t)) ELSE IsNumeral(t)

Unparseable(h) == ~Absent(h) /\ ~Minus(h) /\ ~Plain(h)

Valid(s) == s.userId # None /\ s.content # None /\ s.content # Empty

\* the valid Sources of tenant u, in input order
ValidOf(sources, u) == SelectSeq(sources, LAMBDA s : Valid(s) /\ s.userId = u)

\* the Document is made of the Source's fields
MadeOf(d, s) ==
    /\ d.source = s.filename
    /\ d.type = s.type
    /\ d.modified = s.modified
    /\ d.content = s.content

\* C18: intake grouping.  Each tenant id is a key at most once; the entry of
\* a tenant holds the Documents of exactly the Sources that carry its id and
\* decode to non-null, non-empty content, in input order; a tenant without
\* such a Source is no key, and so a Source without tenant id or content is
\* under no tenant.
C18_GroupedByTenant ==
    conv.pc = "out" =>
        LET in == conv.arg
            out == conv.out
        IN /\ \A j \in 1..Len(out) : \A k \in 1..Len(out) :
                  out[j][1] = out[k][1] => j = k
           /\ \A k \in 1..Len(out) :
                  LET of == ValidOf(in, out[k][1])
                  IN /\ out[k][1] # None
                     /\ of # <<>>
                     /\ Len(out[k][2]) = Len(of)
                     /\ \A i \in 1..Len(of) : MadeOf(out[k][2][i], of[i])
           /\ \A s \in Range(in) :
                  Valid(s) => \E k \in 1..Len(out) : out[k][1] = s.userId

\* three Sources of two tenants, interleaved: the first tenant's entry holds
\* its two Documents in input order
C18_Witness ==
    /\ conv.pc = "out"
    /\ Len(conv.arg) = 3
    /\ \A i \in 1..3 : Valid(conv.arg[i])
    /\ conv.arg[1].userId = U1 /\ conv.arg[1].filename = FileB
    /\ conv.arg[2].userId = U2
    /\ conv.arg[3].userId = U1 /\ conv.arg[3].filename = FileA
    /\ Len(conv.out) = 2
    /\ conv.out[1][1] = U1
    /\ Len(conv.out[1][2]) = 2
    /\ conv.out[1][2][1].source = FileB
    /\ conv.out[1][2][2].source = FileA

\* C19: a model whose download failed on the response status or on the
\* digest is not reported as present afterwards: no _model_exists,
\* _download_model or model_init call that names it returns True unless a
\* download of it has completed and passed the digest check in between.
C19_FailedNeverReportedPresent ==
    (dl.pc = "on" /\ dl.last.result = TRUE) => dl.last.names \cap dl.failed = {}

\* the call named a model, and the model exists by _model_exists
ExistedBefore ==
    \A name \in dl.last.names : name # Empty /\ _model_exists(dl.last.before, name)

\* the call returned True, issued no request and left every file as it was
Skipped ==
    /\ dl.last.result = TRUE
    /\ dl.last.requested = FALSE
    /\ dl.fs = dl.last.before

\* C20: provisioning is idempotent.  A _download_model call for a model that
\* exists (as the given path, under the models directory, or as the extracted
\* name of a manifest entry) returns True without a request and without
\* touching a file; so does the call that follows a successful provisioning
\* of the same model.
C20_ProvisioningIdempotent ==
    (dl.pc = "on" /\ dl.last.op = "download") =>
        /\ ExistedBefore => Skipped
        /\ dl.last.again => Skipped

====
